---- MODULE Spec2Model ----
(***************************************************************************)
(* Record/replay memoization engine of jhack's event recorder              *)
(* (src/jhack/utils/event_recorder/recorder.py).                           *)
(*                                                                         *)
(* The store files, the process environment and the stack of wrapper      *)
(* invocations that are waiting for their real backend call are the       *)
(* state.  One action per operation: a new process, setup(), a call that  *)
(* enters a @memo wrapper, the return of a real backend call and its      *)
(* failure.                                                                *)
(***************************************************************************)
EXTENDS Integers, Sequences, FiniteSets, TLC

\* ------------------------------------------------------------------ bounds
\* Scenes a store file may hold (setup() in record mode is capped by it).
MaxScenes == 2
\* Recorded pairs a store file may hold (record-mode calls are capped by it).
MaxCalls == 2
\* Interceptions a process makes between two of its starts and setups.
MaxHist == 3
\* Wrapper invocations nested in one another.
MaxDepth == 2

\* --------------------------------------------------------- program constants
DEFAULT_DB_NAME == "event_db.json"
OTHER_DB_NAME == "other_db.json"
DbNames == {DEFAULT_DB_NAME, OTHER_DB_NAME}
SUPPORTED_SERIALIZERS_LIST == {"pickle", "json", "io", "PebblePush"}
\* An environment variable that is not set.
Unset == "<unset>"
\* The cursor of a loose Memo, "n/a" (cursors are integers otherwise).
NA == 0 - 1

\* ------------------------------------------------------------ python values
\* A Python value: a tag t, a string payload s and the children c.
Py(t, s, c) == [t |-> t, s |-> s, c |-> c]
PyNone == Py("none", "", <<>>)
PyStr(s) == Py("str", s, <<>>)
PyList(c) == Py("list", "", c)
PyTuple(c) == Py("tuple", "", c)
\* A dict keeps the insertion order of its items; an item is a key and a value.
PyItem(k, v) == Py("item", k, <<v>>)
PyDict(items) == Py("dict", "", items)
\* A readable stream (io.StringIO, a file) that holds the text s.
PyIO(s) == Py("io", s, <<>>)
\* An open binary stream with the contents s, and bytes.
PyBytesIO(s) == Py("bytesio", s, <<>>)
PyBytes(s) == Py("bytes", s, <<>>)
\* bytes: pickle.dumps(v)
PyPickled(v) == Py("bytes", "pickle", <<v>>)
\* A raised exception of the class s.
PyExc(s) == Py("exc", s, <<>>)
IsExc(v) == v.t = "exc"

\* bool(v) is False
Falsy(v) ==
    \/ v.t = "none"
    \/ v.t = "str" /\ v.s = ""
    \/ v.t \in {"list", "tuple", "dict"} /\ v.c = <<>>

\* ------------------------------------------------------------- serializers
\* The document json.dumps writes: tuples are written as lists, dicts keep
\* the order of their items, streams and bytes are a TypeError.
RECURSIVE JsonDoc(_)
JsonDoc(v) ==
    CASE v.t \in {"list", "tuple"} ->
            LET ch == [i \in 1..Len(v.c) |-> JsonDoc(v.c[i])]
            IN  IF \E i \in 1..Len(ch) : IsExc(ch[i])
                THEN PyExc("TypeError") ELSE PyList(ch)
      [] v.t = "dict" ->
            LET ch == [i \in 1..Len(v.c) |-> JsonDoc(v.c[i].c[1])]
            IN  IF \E i \in 1..Len(ch) : IsExc(ch[i])
                THEN PyExc("TypeError")
                ELSE PyDict([i \in 1..Len(ch) |-> PyItem(v.c[i].s, ch[i])])
      [] v.t \in {"none", "str"} -> v
      [] OTHER -> PyExc("TypeError")

\* pickle.dumps: every value but an open stream has a pickle (the streams of
\* the model are streams over a file, as io.TextIOWrapper, which have none).
RECURSIVE Picklable(_)
Picklable(v) ==
    /\ v.t \notin {"io", "bytesio"}
    /\ \A i \in 1..Len(v.c) : Picklable(v.c[i])

\* base64.b64encode(pickle.dumps(obj)).decode("utf-8")
B64Pickle(obj) ==
    IF Picklable(obj) THEN Py("b64pickle", "", <<obj>>) ELSE PyExc("TypeError")

\* json.dumps(obj)
JsonDumps(obj) ==
    LET doc == JsonDoc(obj)
    IN  IF IsExc(doc) THEN doc ELSE Py("json", "", <<doc>>)

\* memo.wrapper._dump(obj, method, output_) under the mode _MEMO_MODE
Dump(obj, method, output_, mode) ==
    CASE method = "pickle" -> B64Pickle(obj)
      [] method = "json" -> JsonDumps(obj)
      [] method = "PebblePush" ->
            IF ~(obj.t \in {"tuple", "list"} /\ Len(obj.c) = 2)
            THEN PyExc("ValueError")
            ELSE LET args_ == obj.c[1]
                     kwargs_ == obj.c[2]
                 IN  IF ~(args_.t \in {"tuple", "list"} /\ Len(args_.c) = 2)
                     THEN PyExc("AssertionError")
                     ELSE LET path == args_.c[1]
                              source == args_.c[2]
                          IN  IF source.t \in {"bytes", "str"}
                              THEN B64Pickle(PyTuple(<<PyTuple(<<path, PyPickled(source)>>), kwargs_>>))
                              ELSE IF Falsy(output_)
                                   THEN IF mode = "record"
                                        THEN PyExc("ValueError")
                                        ELSE IF source.t = "bytesio"
                                             THEN B64Pickle(PyTuple(<<PyTuple(<<path, PyBytes(source.s)>>), kwargs_>>))
                                             ELSE IF source.t = "io"
                                             THEN B64Pickle(PyTuple(<<PyTuple(<<path, PyStr(source.s)>>), kwargs_>>))
                                             ELSE PyExc("RuntimeError")
                                   ELSE B64Pickle(PyTuple(<<PyTuple(<<path, output_>>), kwargs_>>))
      [] method = "io" ->
            IF obj.t = "io" THEN B64Pickle(PyStr(obj.s))
            ELSE IF obj.t = "bytesio" THEN B64Pickle(PyBytes(obj.s))
            ELSE PyExc("TypeError")
      [] OTHER -> PyExc("ValueError")

\* memo.wrapper._load(obj, method)
Load(obj, method) ==
    CASE method = "pickle" ->
            IF obj.t = "b64pickle" THEN obj.c[1] ELSE PyExc("Error")
      [] method = "json" ->
            IF obj.t = "json" THEN obj.c[1] ELSE PyExc("JSONDecodeError")
      [] method = "io" ->
            IF obj.t # "b64pickle" THEN PyExc("Error")
            ELSE IF obj.c[1].t # "str" THEN PyExc("TypeError")
            ELSE PyIO(obj.c[1].s)
      [] OTHER -> PyExc("ValueError")

\* _check_serializer: the (input, output) pair, an unknown name replaced by json
CheckSerializer(serializer) ==
    <<IF serializer[1] \in SUPPORTED_SERIALIZERS_LIST THEN serializer[1] ELSE "json",
      IF serializer[2] \in SUPPORTED_SERIALIZERS_LIST THEN serializer[2] ELSE "json">>

\* _check_caching_policy
CheckCachingPolicy(policy) ==
    IF policy \in {"strict", "loose"} THEN policy ELSE "strict"

\* A variant of LoadMemoMode that takes every value but record for replay.
LoadMemoModeReplay(val) ==
    IF val = Unset \/ val = "record" THEN "record" ELSE "replay"

\* _load_memo_mode: the value of MEMO_MODE, record when unset or unknown
LoadMemoMode(val) ==
    IF val = Unset THEN "record"
    ELSE IF val \in {"record", "replay"} THEN val
    ELSE "record"

\* -------------------------------------------------------------- data model
\* Memo.__post_init__: a loose Memo without calls gets an empty mapping and
\* the cursor "n/a".
PostInit(m) ==
    IF m.caching_policy = "loose" /\ m.calls = <<>>
    THEN [m EXCEPT !.calls = <<>>, !.cursor = NA]
    ELSE m

\* Memo(caching_policy=..., serializer=(input, output)): calls and cursor
\* take their defaults.  calls is a sequence of <<input, output>> pairs: the
\* list of a strict Memo, the items of the dict of a loose one.
NewMemo(policy, serializer) ==
    PostInit([calls |-> <<>>, cursor |-> 0, caching_policy |-> policy,
              serializer |-> [form |-> "tuple", pair |-> serializer]])

\* dict.__setitem__ on the items of a dict
DictSet(d, k, v) ==
    IF \E i \in 1..Len(d) : d[i][1] = k
    THEN [i \in 1..Len(d) |-> IF d[i][1] = k THEN <<k, v>> ELSE d[i]]
    ELSE Append(d, <<k, v>>)

\* The marker _NotFound.
NotFound == Py("_NotFound", "", <<>>)

\* dict.get(k, _NotFound) on the items of a dict
DictGet(d, k) ==
    IF \E i \in 1..Len(d) : d[i][1] = k
    THEN d[CHOOSE i \in 1..Len(d) : d[i][1] = k][2]
    ELSE NotFound

\* A variant of CacheCall that appends whatever the policy.
CacheCallAppend(m, input, output) ==
    [m EXCEPT !.calls = Append(@, <<input, output>>)]

\* A variant of CacheCall that moves the cursor of a strict Memo past the
\* pair it appends.
CacheCallAdvancing(m, input, output) ==
    IF m.caching_policy = "loose"
    THEN [m EXCEPT !.calls = DictSet(@, input, output)]
    ELSE [m EXCEPT !.calls = Append(@, <<input, output>>), !.cursor = @ + 1]

\* Memo.cache_call
CacheCall(m, input, output) ==
    IF m.caching_policy = "loose"
    THEN [m EXCEPT !.calls = DictSet(@, input, output)]
    ELSE [m EXCEPT !.calls = Append(@, <<input, output>>)]

\* Scene(event=event): the Context is empty.
EmptyContext == [n \in {} |-> PyNone]
NewScene(event) == [event |-> event, memos |-> EmptyContext]

\* The names of the Memos of a Context.
MemoNames(scene) == DOMAIN scene.memos

\* json.dumps(asdict(data)): the serializer tuple of a Memo is written as a list.
AsDict(scenes) ==
    [i \in 1..Len(scenes) |->
        [event |-> scenes[i].event,
         memos |-> [n \in DOMAIN scenes[i].memos |->
                      [scenes[i].memos[n] EXCEPT !.serializer.form = "list"]]]]

\* Scene.from_dict on every scene of the file: Memo(**content) runs __post_init__.
ScenesFromDict(raw) ==
    [i \in 1..Len(raw) |->
        [event |-> raw[i].event,
         memos |-> [n \in DOMAIN raw[i].memos |-> PostInit(raw[i].memos[n])]]]

\* ---------------------------------------------------------------- the store
\* A store file: absent, or its text: empty, not JSON ("garbage"), JSON that
\* is not an object ("notobject"), an object whose scenes cannot be made into
\* Scenes ("badscenes"), the empty object event_db writes into a new file
\* ("{}"), or a committed Data ("data").
File(kind, scenes) == [kind |-> kind, scenes |-> scenes]
FileAbsent == File("absent", <<>>)

\* A variant of DBLoad that takes a text it cannot parse for an empty Data.
DBLoadLenient(f) ==
    CASE f.kind = "data" -> [err |-> PyNone, scenes |-> ScenesFromDict(f.scenes)]
      [] f.kind = "absent" -> [err |-> PyExc("FileNotFoundError"), scenes |-> <<>>]
      [] OTHER -> [err |-> PyNone, scenes |-> <<>>]

\* A variant of DBLoad for which an empty text is not JSON.
DBLoadStrict(f) ==
    CASE f.kind = "{}" -> [err |-> PyNone, scenes |-> <<>>]
      [] f.kind = "data" -> [err |-> PyNone, scenes |-> ScenesFromDict(f.scenes)]
      [] f.kind \in {"empty", "garbage"} -> [err |-> PyExc("ValueError"), scenes |-> <<>>]
      [] f.kind = "badscenes" -> [err |-> PyExc("RuntimeError"), scenes |-> <<>>]
      [] f.kind = "notobject" -> [err |-> PyExc("TypeError"), scenes |-> <<>>]
      [] OTHER -> [err |-> PyExc("FileNotFoundError"), scenes |-> <<>>]

\* DB.load: the error raised (None when none) and the scenes of the Data.
\* A text that is not JSON is a ValueError; scenes that cannot be made into
\* Scenes are a RuntimeError; JSON that is not an object has no scenes to
\* name in that RuntimeError, and is a TypeError.
DBLoad(f) ==
    CASE f.kind \in {"empty", "{}"} -> [err |-> PyNone, scenes |-> <<>>]
      [] f.kind = "data" -> [err |-> PyNone, scenes |-> ScenesFromDict(f.scenes)]
      [] f.kind = "garbage" -> [err |-> PyExc("ValueError"), scenes |-> <<>>]
      [] f.kind = "badscenes" -> [err |-> PyExc("RuntimeError"), scenes |-> <<>>]
      [] f.kind = "notobject" -> [err |-> PyExc("TypeError"), scenes |-> <<>>]
      [] OTHER -> [err |-> PyExc("FileNotFoundError"), scenes |-> <<>>]

\* DB.commit
DBCommit(scenes) == File("data", AsDict(scenes))

\* A variant of EventDbTouch that creates the file with one Scene.
EventDbTouchWithScene(f) ==
    IF f.kind = "absent"
    THEN DBCommit(<<NewScene([env |-> <<>>, timestamp |-> 0])>>)
    ELSE f

\* event_db, up to the yield: a missing file is created with the text "{}".
EventDbTouch(f) == IF f.kind = "absent" THEN File("{}", <<>>) ELSE f

\* The database a wrapper uses: MEMO_DATABASE_NAME, or the default name.
DatabaseOf(e) == IF e.db = Unset THEN DEFAULT_DB_NAME ELSE e.db

\* int(idx) for the values of MEMO_REPLAY_IDX of this model
IsInt(s) == s \in {"0", "1", "2", "-1"}
IntOf(s) == CASE s = "0" -> 0 [] s = "1" -> 1 [] s = "2" -> 2 [] OTHER -> 0 - 1

\* seq[i] of Python: a negative index counts from the end
InRange(seq, i) == i < Len(seq) /\ i >= 0 - Len(seq)
PyIndex(seq, i) == IF i >= 0 THEN i + 1 ELSE Len(seq) + i + 1

\* -------------------------------------------------------------- the wrapper
\* A call site: the arguments of @memo and whether the first parameter of
\* the wrapped function is `self`.
Site(name, policy, serializer, is_method) ==
    [name |-> name, caching_policy |-> policy, serializer |-> serializer,
     is_method |-> is_method]

\* A variant of MemoArgs that keeps the receiver.
MemoArgsWithReceiver(site, args) == args

\* memo_args: the positional arguments without the receiver.
MemoArgs(site, args) ==
    IF args # <<>> /\ site.is_method THEN Tail(args) ELSE args

\* (memo_args, kwargs), the object that is serialized as the input of a call
ArgsKwargs(site, args, kwargs) ==
    PyTuple(<<PyList(MemoArgs(site, args)), PyDict(kwargs)>>)

\* What a step of the wrapper comes to: it raises res, it returns res, or it
\* makes the real call (propagate); scenes is the Data it holds then.
Outcome(kind, res, scenes) == [kind |-> kind, res |-> res, scenes |-> scenes]

\* A variant of StrictLookup in which the end of the recorded calls is an
\* error.
StrictLookupIndexError(m, fn_args_kwargs, output_serializer) ==
    IF ~InRange(m.calls, m.cursor)
    THEN [kind |-> "raise", res |-> PyExc("IndexError"), memo |-> m]
    ELSE LET recording == m.calls[PyIndex(m.calls, m.cursor)]
             advanced == [m EXCEPT !.cursor = @ + 1]
             loaded == Load(recording[2], output_serializer)
         IN  IF recording[1] # fn_args_kwargs
             THEN [kind |-> "propagate", res |-> PyNone, memo |-> advanced]
             ELSE [kind |-> "return", res |-> loaded, memo |-> advanced]

\* A variant of StrictLookup, with the cursor advanced before the pair is read.
StrictLookupAdvanceFirst(m, fn_args_kwargs, output_serializer) ==
    LET advanced == [m EXCEPT !.cursor = @ + 1]
    IN  IF ~InRange(m.calls, m.cursor)
        THEN [kind |-> "propagate", res |-> PyNone, memo |-> advanced]
        ELSE LET recording == m.calls[PyIndex(m.calls, m.cursor)]
                 loaded == Load(recording[2], output_serializer)
             IN  IF recording[1] # fn_args_kwargs
                 THEN [kind |-> "propagate", res |-> PyNone, memo |-> advanced]
                 ELSE [kind |-> "return", res |-> loaded, memo |-> advanced]

\* The lookup in a strict Memo: the pair at the cursor is read and the cursor
\* advanced, then the recorded input is compared with the input of the call.
StrictLookup(m, fn_args_kwargs, output_serializer) ==
    IF m.cursor = NA
    THEN [kind |-> "raise", res |-> PyExc("TypeError"), memo |-> m]
    ELSE IF ~InRange(m.calls, m.cursor)
    THEN [kind |-> "propagate", res |-> PyNone, memo |-> m]
    ELSE LET recording == m.calls[PyIndex(m.calls, m.cursor)]
             advanced == [m EXCEPT !.cursor = @ + 1]
             loaded == Load(recording[2], output_serializer)
         IN  IF recording[1] # fn_args_kwargs
             THEN [kind |-> "propagate", res |-> PyNone, memo |-> advanced]
             ELSE IF IsExc(loaded)
             THEN [kind |-> "raise", res |-> loaded, memo |-> advanced]
             ELSE [kind |-> "return", res |-> loaded, memo |-> advanced]

\* The lookup in a loose Memo: by the serialized input, no cursor.
LooseLookup(m, fn_args_kwargs, output_serializer) ==
    LET recorded_output == DictGet(m.calls, fn_args_kwargs)
        loaded == Load(recorded_output, output_serializer)
    IN  IF recorded_output = NotFound
        THEN [kind |-> "propagate", res |-> PyNone, memo |-> m]
        ELSE IF IsExc(loaded)
        THEN [kind |-> "raise", res |-> loaded, memo |-> m]
        ELSE [kind |-> "return", res |-> loaded, memo |-> m]

\* A variant of LookupParams that goes by the arguments of the call site.
LookupParamsOfSite(site, m) ==
    [strict |-> CheckCachingPolicy(site.caching_policy) = "strict",
     ser |-> CheckSerializer(site.serializer)]

\* The metadata the lookup goes by: that of the call site, or the stored
\* one when the two differ.
LookupParams(site, m) ==
    LET ser == CheckSerializer(site.serializer)
        same == /\ m.caching_policy = site.caching_policy
                /\ m.serializer.pair = ser
    IN  IF same
        THEN [strict |-> CheckCachingPolicy(site.caching_policy) = "strict", ser |-> ser]
        ELSE [strict |-> CheckCachingPolicy(m.caching_policy) = "strict",
              ser |-> CheckSerializer(m.serializer.pair)]

\* A variant of Replay in which the first scene is replayed when
\* MEMO_REPLAY_IDX is not set or is not an integer.
ReplayDefaultIdx(site, args, kwargs, scenes, idx) ==
    LET i == IF idx = Unset \/ ~IsInt(idx) THEN 1 ELSE PyIndex(scenes, IntOf(idx))
    IN  IF ~(i \in 1..Len(scenes)) THEN Outcome("raise", PyExc("IndexError"), scenes)
        ELSE IF site.name \notin MemoNames(scenes[i])
        THEN Outcome("propagate", PyNone, scenes)
        ELSE LET m == scenes[i].memos[site.name]
                 p == LookupParams(site, m)
                 fn_args_kwargs == Dump(ArgsKwargs(site, args, kwargs), p.ser[1], PyNone, "replay")
                 l == IF p.strict
                      THEN StrictLookup(m, fn_args_kwargs, p.ser[2])
                      ELSE LooseLookup(m, fn_args_kwargs, p.ser[2])
             IN  IF IsExc(fn_args_kwargs)
                 THEN Outcome("raise", fn_args_kwargs, scenes)
                 ELSE Outcome(l.kind, l.res,
                              [scenes EXCEPT ![i].memos[site.name] = l.memo])

\* A variant of Replay in which a Memo that is missing is an error.
ReplayKeyError(site, args, kwargs, scenes, idx) ==
    IF idx = Unset THEN Outcome("raise", PyExc("RuntimeError"), scenes)
    ELSE IF ~IsInt(idx) THEN Outcome("raise", PyExc("ValueError"), scenes)
    ELSE IF ~InRange(scenes, IntOf(idx)) THEN Outcome("raise", PyExc("IndexError"), scenes)
    ELSE LET i == PyIndex(scenes, IntOf(idx))
         IN  IF site.name \notin MemoNames(scenes[i])
             THEN Outcome("raise", PyExc("KeyError"), scenes)
             ELSE LET m == scenes[i].memos[site.name]
                      p == LookupParams(site, m)
                      fn_args_kwargs == Dump(ArgsKwargs(site, args, kwargs), p.ser[1], PyNone, "replay")
                      l == IF p.strict
                           THEN StrictLookup(m, fn_args_kwargs, p.ser[2])
                           ELSE LooseLookup(m, fn_args_kwargs, p.ser[2])
                  IN  IF IsExc(fn_args_kwargs)
                      THEN Outcome("raise", fn_args_kwargs, scenes)
                      ELSE Outcome(l.kind, l.res,
                                   [scenes EXCEPT ![i].memos[site.name] = l.memo])

\* A variant of Replay in which an index that addresses no Scene is a
\* fallback to the real call.
ReplayRangeFallsBack(site, args, kwargs, scenes, idx) ==
    IF idx = Unset THEN Outcome("raise", PyExc("RuntimeError"), scenes)
    ELSE IF ~IsInt(idx) THEN Outcome("raise", PyExc("ValueError"), scenes)
    ELSE IF ~InRange(scenes, IntOf(idx)) THEN Outcome("propagate", PyNone, scenes)
    ELSE LET i == PyIndex(scenes, IntOf(idx))
         IN  IF site.name \notin MemoNames(scenes[i])
             THEN Outcome("propagate", PyNone, scenes)
             ELSE LET m == scenes[i].memos[site.name]
                      p == LookupParams(site, m)
                      fn_args_kwargs == Dump(ArgsKwargs(site, args, kwargs), p.ser[1], PyNone, "replay")
                      l == IF p.strict
                           THEN StrictLookup(m, fn_args_kwargs, p.ser[2])
                           ELSE LooseLookup(m, fn_args_kwargs, p.ser[2])
                  IN  IF IsExc(fn_args_kwargs)
                      THEN Outcome("raise", fn_args_kwargs, scenes)
                      ELSE Outcome(l.kind, l.res,
                                   [scenes EXCEPT ![i].memos[site.name] = l.memo])

\* The replay branch of the wrapper on the loaded scenes, for the value idx
\* of MEMO_REPLAY_IDX.
Replay(site, args, kwargs, scenes, idx) ==
    IF idx = Unset THEN Outcome("raise", PyExc("RuntimeError"), scenes)
    ELSE IF ~IsInt(idx) THEN Outcome("raise", PyExc("ValueError"), scenes)
    ELSE IF ~InRange(scenes, IntOf(idx)) THEN Outcome("raise", PyExc("IndexError"), scenes)
    ELSE LET i == PyIndex(scenes, IntOf(idx))
         IN  IF site.name \notin MemoNames(scenes[i])
             THEN Outcome("propagate", PyNone, scenes)
             ELSE LET m == scenes[i].memos[site.name]
                      p == LookupParams(site, m)
                      fn_args_kwargs == Dump(ArgsKwargs(site, args, kwargs), p.ser[1], PyNone, "replay")
                      l == IF p.strict
                           THEN StrictLookup(m, fn_args_kwargs, p.ser[2])
                           ELSE LooseLookup(m, fn_args_kwargs, p.ser[2])
                  IN  IF IsExc(fn_args_kwargs)
                      THEN Outcome("raise", fn_args_kwargs, scenes)
                      ELSE Outcome(l.kind, l.res,
                                   [scenes EXCEPT ![i].memos[site.name] = l.memo])

\* A variant of Record in which a Memo that is created is not put into the
\* Context.
RecordNoAttach(site, args, kwargs, scenes, output) ==
    LET ser == CheckSerializer(site.serializer)
        last == Len(scenes)
        memo == IF site.name \in MemoNames(scenes[last])
                THEN scenes[last].memos[site.name]
                ELSE NewMemo(CheckCachingPolicy(site.caching_policy), ser)
        serialized_args_kwargs == Dump(ArgsKwargs(site, args, kwargs), ser[1], output, "record")
        serialized_output == Dump(output, ser[2], PyNone, "record")
        cached == CacheCall(memo, serialized_args_kwargs, serialized_output)
        memos == [n \in MemoNames(scenes[last]) |->
                    IF n = site.name THEN cached ELSE scenes[last].memos[n]]
    IN  IF IsExc(serialized_args_kwargs)
        THEN Outcome("raise", serialized_args_kwargs, scenes)
        ELSE IF IsExc(serialized_output)
        THEN Outcome("raise", serialized_output, scenes)
        ELSE IF ser[2] = "io" /\ IsExc(Load(serialized_output, "io"))
        THEN Outcome("raise", Load(serialized_output, "io"), scenes)
        ELSE Outcome("return",
                     IF ser[2] = "io" THEN Load(serialized_output, "io") ELSE output,
                     [scenes EXCEPT ![last].memos = memos])

\* A variant of Record that returns the output as it is stored.
RecordReturnsStored(site, args, kwargs, scenes, output) ==
    LET ser == CheckSerializer(site.serializer)
        last == Len(scenes)
        memo == IF site.name \in MemoNames(scenes[last])
                THEN scenes[last].memos[site.name]
                ELSE NewMemo(CheckCachingPolicy(site.caching_policy), ser)
        serialized_args_kwargs == Dump(ArgsKwargs(site, args, kwargs), ser[1], output, "record")
        serialized_output == Dump(output, ser[2], PyNone, "record")
        cached == CacheCall(memo, serialized_args_kwargs, serialized_output)
        memos == [n \in MemoNames(scenes[last]) \cup {site.name} |->
                    IF n = site.name THEN cached ELSE scenes[last].memos[n]]
    IN  IF IsExc(serialized_args_kwargs)
        THEN Outcome("raise", serialized_args_kwargs, scenes)
        ELSE IF IsExc(serialized_output)
        THEN Outcome("raise", serialized_output, scenes)
        ELSE Outcome("return", serialized_output,
                     [scenes EXCEPT ![last].memos = memos])

\* The record branch of the wrapper after the real call returned output, on
\* the scenes loaded before the call.
Record(site, args, kwargs, scenes, output) ==
    LET ser == CheckSerializer(site.serializer)
        last == Len(scenes)
        memo == IF site.name \in MemoNames(scenes[last])
                THEN scenes[last].memos[site.name]
                ELSE NewMemo(CheckCachingPolicy(site.caching_policy), ser)
        serialized_args_kwargs == Dump(ArgsKwargs(site, args, kwargs), ser[1], output, "record")
        serialized_output == Dump(output, ser[2], PyNone, "record")
        cached == CacheCall(memo, serialized_args_kwargs, serialized_output)
        memos == [n \in MemoNames(scenes[last]) \cup {site.name} |->
                    IF n = site.name THEN cached ELSE scenes[last].memos[n]]
    IN  IF IsExc(serialized_args_kwargs)
        THEN Outcome("raise", serialized_args_kwargs, scenes)
        ELSE IF IsExc(serialized_output)
        THEN Outcome("raise", serialized_output, scenes)
        ELSE IF ser[2] = "io" /\ IsExc(Load(serialized_output, "io"))
        THEN Outcome("raise", Load(serialized_output, "io"), scenes)
        ELSE Outcome("return",
                     IF ser[2] = "io" THEN Load(serialized_output, "io") ELSE output,
                     [scenes EXCEPT ![last].memos = memos])

\* _reset_replay_cursors on the scenes of a Data
ResetCursors(scenes) ==
    [i \in 1..Len(scenes) |->
        [event |-> scenes[i].event,
         memos |-> [n \in DOMAIN scenes[i].memos |->
                      [scenes[i].memos[n] EXCEPT !.cursor = 0]]]]

\* -------------------------------------------------------------------- state
VARIABLES
    files,   \* the store files, by name
    env,     \* the environment of the running process
    clock,   \* the time, for the timestamp of an Event
    stack,   \* the wrappers that are in their real call, the innermost last
    start,   \* history: what the process began with last ("process": its start,
             \* "setup": a setup()), and the files as that left them
    made,    \* history: the calls of wrappers since then, in order of invocation
    last,    \* history: the last thing that happened, an interception that
             \* was completed, a setup() or a process start
    peer     \* the interception of another process on the default store: where
             \* its wrapper is, the Data it holds, and what it wrote

vars == <<files, env, clock, stack, start, made, last, peer>>

\* The environment: MEMO_MODE, MEMO_REPLAY_IDX and MEMO_DATABASE_NAME, and
\* JUJU_DISPATCH_PATH, which juju sets to the hook it dispatches.
Env(mode, idx, db) ==
    [mode |-> mode, idx |-> idx, db |-> db, dispatch |-> "hooks/start"]

\* The environment e with JUJU_DISPATCH_PATH set to p, or not set.
WithDispatch(e, p) == [e EXCEPT !.dispatch = p]

\* Event.name: the second of the parts of JUJU_DISPATCH_PATH that "/"
\* separates; a KeyError without the variable, an IndexError without a "/".
EventName(event) ==
    CASE event.env.dispatch = Unset -> PyExc("KeyError")
      [] event.env.dispatch = "hooks/start" -> PyStr("start")
      [] OTHER -> PyExc("IndexError")

\* _capture
Capture == [env |-> env, timestamp |-> clock]

\* A call: the site, the positional arguments (the receiver first) and the
\* keyword arguments.
CallOf(site, args, kwargs) == [site |-> site, args |-> args, kwargs |-> kwargs]

\* How a process began its interceptions, and the files as that left them.
Began(by, fs) == [by |-> by, files |-> fs]

\* The record of a completed interception: the call and its number in made
\* (seq), the mode and the database of the wrapper, the number of real calls
\* it made (real) and what the real call returned or raised (out), what the
\* wrapper returned or raised (res), how deep it was nested (depth), the
\* number of interceptions nested in it (inner), the files before it (pre),
\* as the last interception nested in it left them (mid, which is pre when
\* none was) and after it (post), and how the process began the
\* interceptions it is one of (begin).
Entry(call, seq, mode, db, real, out, res, depth, inner, pre, mid, post) ==
    [kind |-> "call", call |-> call, seq |-> seq, mode |-> mode, db |-> db,
     real |-> real, out |-> out, res |-> res, depth |-> depth, inner |-> inner,
     pre |-> pre, mid |-> mid, post |-> post, begin |-> start]

\* The record of a process start ("process") or of a setup(file) ("setup"):
\* res is what setup raised, None when nothing, and begin is how the process
\* began the interceptions before it.
Mark(kind, mode, file, res, pre, post, begin) ==
    [kind |-> kind, call |-> CallOf(Site("", "", <<"", "">>, FALSE), <<>>, <<>>),
     seq |-> 0, mode |-> mode, db |-> file, real |-> 0, out |-> PyNone,
     res |-> res, depth |-> 0, inner |-> 0, pre |-> pre, mid |-> pre,
     post |-> post, begin |-> begin]

\* The wrapper of the other process: it is not in a call ("idle"), in its
\* real call with the Data it loaded ("loaded"), in DB.commit with the file
\* opened for writing ("writing"), or it has returned ("done"); commit is the
\* Data it commits and post the file as its write_text left it.
PeerIdle ==
    [at |-> "idle", call |-> CallOf(Site("", "", <<"", "">>, FALSE), <<>>, <<>>),
     data |-> <<>>, out |-> PyNone, commit |-> <<>>, post |-> FileAbsent]

\* The recorded pairs in the scenes of a Data.
RECURSIVE TotalPairs(_)
TotalPairs(scenes) ==
    IF scenes = <<>> THEN 0
    ELSE LET ms == scenes[1].memos
             RECURSIVE Sum(_)
             Sum(S) == IF S = {} THEN 0
                       ELSE LET n == CHOOSE n \in S : TRUE
                            IN  Len(ms[n].calls) + Sum(S \ {n})
         IN  Sum(DOMAIN ms) + TotalPairs(Tail(scenes))

Init ==
    /\ files = [d \in DbNames |-> FileAbsent]
    /\ env = Env(Unset, Unset, Unset)
    /\ clock = 0
    /\ stack = <<>>
    /\ start = Began("process", files)
    /\ made = <<>>
    /\ last = Mark("process", "record", "", PyNone, files, files, Began("process", files))
    /\ peer = PeerIdle

\* An interception is over: the files are as it leaves them, and the wrapper
\* that was in its real call (if any) goes on.
Complete(entry, rest) ==
    /\ files' = entry.post
    /\ last' = entry
    /\ stack' = IF rest = <<>> THEN rest
                ELSE [rest EXCEPT ![Len(rest)] =
                        [rest[Len(rest)] EXCEPT !.inner = @ + 1, !.mid = entry.post]]
    /\ UNCHANGED <<env, clock, start, peer>>

\* A process starts with the environment e.
NewProcess(e) ==
    /\ stack = <<>>
    /\ e # env
    /\ env' = e
    /\ start' = Began("process", files)
    /\ made' = <<>>
    /\ last' = Mark("process", LoadMemoMode(e.mode), "", PyNone, files, files,
                     Began("process", files))
    /\ UNCHANGED <<files, clock, stack, peer>>

\* A variant of RecordCurrentEvent that begins the Data anew.
RecordCurrentEventAnew(fs, file) ==
    LET touched == [fs EXCEPT ![file] = EventDbTouch(@)]
        db == DBLoad(touched[file])
    IN  IF IsExc(db.err)
        THEN [files |-> touched, err |-> db.err]
        ELSE [files |-> [touched EXCEPT ![file] = DBCommit(<<NewScene(Capture)>>)],
              err |-> PyNone]

\* A variant of RecordCurrentEvent that puts the new Scene before the others.
RecordCurrentEventInFront(fs, file) ==
    LET touched == [fs EXCEPT ![file] = EventDbTouch(@)]
        db == DBLoad(touched[file])
    IN  IF IsExc(db.err)
        THEN [files |-> touched, err |-> db.err]
        ELSE [files |-> [touched EXCEPT ![file] =
                            DBCommit(<<NewScene(Capture)>> \o db.scenes)],
              err |-> PyNone]

\* _record_current_event(file) on the files fs: the files it leaves, and
\* what it raises
RecordCurrentEvent(fs, file) ==
    LET touched == [fs EXCEPT ![file] = EventDbTouch(@)]
        db == DBLoad(touched[file])
    IN  IF IsExc(db.err)
        THEN [files |-> touched, err |-> db.err]
        ELSE [files |-> [touched EXCEPT ![file] =
                            DBCommit(Append(db.scenes, NewScene(Capture)))],
              err |-> PyNone]

\* _reset_replay_cursors(file) on the files fs, for all scenes
ResetReplayCursors(fs, file) ==
    LET touched == [fs EXCEPT ![file] = EventDbTouch(@)]
        db == DBLoad(touched[file])
    IN  IF IsExc(db.err)
        THEN [files |-> touched, err |-> db.err]
        ELSE [files |-> [touched EXCEPT ![file] = DBCommit(ResetCursors(db.scenes))],
              err |-> PyNone]

\* setup(file): in replay mode the cursors of the default database are reset.
SetupFiles(fs, mode, file) ==
    IF mode = "record"
    THEN RecordCurrentEvent(fs, file)
    ELSE ResetReplayCursors(fs, DEFAULT_DB_NAME)

\* setup(file); in record mode it prints the name of the Event when the
\* Scene is committed, and raises what Event.name raises.
Setup(file) ==
    /\ stack = <<>>
    /\ LET mode == LoadMemoMode(env.mode)
           r == SetupFiles(files, mode, file)
           raised == IF IsExc(r.err) THEN r.err
                     ELSE IF mode = "record" /\ IsExc(EventName(Capture))
                          THEN EventName(Capture)
                          ELSE PyNone
       IN  /\ mode = "record" => Len(DBLoad(EventDbTouch(files[file])).scenes) < MaxScenes
           /\ mode = "record" => clock < MaxScenes
           /\ files' = r.files
           /\ clock' = IF mode = "record" /\ ~IsExc(r.err) THEN clock + 1 ELSE clock
           /\ start' = Began("setup", r.files)
           /\ made' = <<>>
           /\ last' = Mark("setup", mode, file, raised, files, r.files, start)
    /\ UNCHANGED <<env, stack, peer>>

\* A call of the wrapper of a site, by the program or (nested) by the real
\* call of the wrapper on top of the stack.
Call(site, args, kwargs) ==
    /\ Len(stack) < MaxDepth
    /\ Len(made) < MaxHist
    /\ made' = Append(made, CallOf(site, args, kwargs))
    /\ LET mode == LoadMemoMode(env.mode)
           database == DatabaseOf(env)
           touched == [files EXCEPT ![database] = EventDbTouch(@)]
           db == DBLoad(touched[database])
           entry(res, post) ==
               Entry(CallOf(site, args, kwargs), Len(made) + 1, mode, database,
                     0, PyNone, res, Len(stack), 0, files, files, post)
           enter(path, scenes) ==
               /\ stack' = Append(stack,
                               [call |-> CallOf(site, args, kwargs),
                                seq |-> Len(made) + 1,
                                mode |-> mode, db |-> database, path |-> path,
                                data |-> scenes, pre |-> files, mid |-> files,
                                inner |-> 0])
               /\ files' = touched
               /\ UNCHANGED <<env, clock, start, last, peer>>
       IN  IF IsExc(db.err)
           THEN Complete(entry(db.err, touched), stack)
           ELSE IF db.scenes = <<>>
           THEN Complete(entry(PyExc("RuntimeError"), touched), stack)
           ELSE IF mode = "record"
           THEN /\ TotalPairs(db.scenes) < MaxCalls
                /\ enter("record", db.scenes)
           ELSE LET o == Replay(site, args, kwargs, db.scenes, env.idx)
                IN  CASE o.kind = "raise" -> Complete(entry(o.res, touched), stack)
                      [] o.kind = "return" ->
                            Complete(entry(o.res, [touched EXCEPT ![database] = DBCommit(o.scenes)]),
                                     stack)
                      [] OTHER -> enter("fallback", o.scenes)

\* A variant of AfterPropagate in which the output of the real call is
\* recorded in replay mode too.
AfterPropagateMemoize(f, output) ==
    Record(f.call.site, f.call.args, f.call.kwargs, f.data, output)

\* The wrapper f after its real call returned output: what it comes to.
AfterPropagate(f, output) ==
    IF f.path = "record"
    THEN Record(f.call.site, f.call.args, f.call.kwargs, f.data, output)
    ELSE Outcome("return", output, f.data)

\* The real call of the innermost wrapper returns output: the wrapper goes
\* on, and event_db commits the Data when the wrapper returns.
BackendReturn(output) ==
    /\ stack # <<>>
    /\ LET f == stack[Len(stack)]
           rest == SubSeq(stack, 1, Len(stack) - 1)
           o == AfterPropagate(f, output)
           post == IF o.kind = "raise" THEN files
                   ELSE [files EXCEPT ![f.db] = DBCommit(o.scenes)]
       IN  Complete(Entry(f.call, f.seq, f.mode, f.db, 1, output, o.res,
                          Len(rest), f.inner, f.pre, f.mid, post), rest)
    /\ UNCHANGED made

\* A variant of AfterFailure in which event_db commits the Data on an
\* exception too.
AfterFailureCommit(f, fs) == [fs EXCEPT ![f.db] = DBCommit(f.data)]

\* What is left of the files when the real call of the wrapper f raises:
\* the exception leaves the wrapper and event_db, nothing is committed.
AfterFailure(f, fs) == fs

\* The real call of the innermost wrapper raises.
BackendFail ==
    /\ stack # <<>>
    /\ LET f == stack[Len(stack)]
           rest == SubSeq(stack, 1, Len(stack) - 1)
       IN  Complete(Entry(f.call, f.seq, f.mode, f.db, 1, PyExc("BackendError"),
                          PyExc("BackendError"), Len(rest), f.inner, f.pre, f.mid,
                          AfterFailure(f, files)),
                    rest)
    /\ UNCHANGED made

\* Something other than the recorder writes the text of kind k into the
\* store file d, or removes the file, between two operations.
Tamper(d, k) ==
    /\ stack = <<>>
    /\ files[d].kind # k
    /\ files' = [files EXCEPT ![d] = File(k, <<>>)]
    /\ UNCHANGED <<env, clock, stack, start, made, last, peer>>

\* ---------------------------------------------------------------- universe
\* A variant of HeldData in which the wrapper holds the Data of the file as
\* it is when the real call returns.
HeldDataReloaded(p, fs) == DBLoad(fs[DEFAULT_DB_NAME]).scenes

\* The Data event_db commits when the wrapper returns: the object it loaded
\* before the yield, whatever the file holds by then.
HeldData(p, fs) == p.data

\* The file after a write_text of the scenes that found it as f when it
\* wrote: the text of the scenes, or, when another writer has put a text
\* there since the file was opened, that text or a mix of the two.
WriteText(f, scenes) ==
    IF f.kind \in {"empty", "garbage"}
    THEN {DBCommit(scenes)}
    ELSE {DBCommit(scenes), File("garbage", <<>>)}

\* A wrapper of another process, in record mode on the default store, is
\* called: event_db loads the file.  Nothing keeps it from loading while a
\* wrapper of this process is in its real call.
PeerCall(site, args, kwargs) ==
    /\ peer.at \in {"idle", "done"}
    /\ LET touched == [files EXCEPT ![DEFAULT_DB_NAME] = EventDbTouch(@)]
           db == DBLoad(touched[DEFAULT_DB_NAME])
       IN  /\ files' = touched
           /\ IF IsExc(db.err) \/ db.scenes = <<>>
              THEN peer' = PeerIdle
              ELSE /\ TotalPairs(db.scenes) < MaxCalls
                   /\ peer' = [PeerIdle EXCEPT !.at = "loaded",
                                               !.call = CallOf(site, args, kwargs),
                                               !.data = db.scenes]
    /\ UNCHANGED <<env, clock, stack, start, made, last>>

\* The real call of the other process returns output: its wrapper records
\* the pair in the Data it holds, and DB.commit opens the file for writing,
\* which empties it.
PeerReturn(output) ==
    /\ peer.at = "loaded"
    /\ LET o == Record(peer.call.site, peer.call.args, peer.call.kwargs,
                       HeldData(peer, files), output)
       IN  IF o.kind = "raise"
           THEN /\ peer' = PeerIdle
                /\ UNCHANGED files
           ELSE /\ peer' = [peer EXCEPT !.at = "writing", !.out = output,
                                        !.commit = o.scenes]
                /\ files' = [files EXCEPT ![DEFAULT_DB_NAME] = File("empty", <<>>)]
    /\ UNCHANGED <<env, clock, stack, start, made, last>>

\* write_text of the other process has written a part of its text.
PeerWritePart ==
    /\ peer.at = "writing"
    /\ files[DEFAULT_DB_NAME].kind = "empty"
    /\ files' = [files EXCEPT ![DEFAULT_DB_NAME] = File("garbage", <<>>)]
    /\ UNCHANGED <<env, clock, stack, start, made, last, peer>>

\* write_text of the other process has written its text and closed the file.
PeerWriteEnd ==
    /\ peer.at = "writing"
    /\ \E f \in WriteText(files[DEFAULT_DB_NAME], peer.commit) :
          /\ files' = [files EXCEPT ![DEFAULT_DB_NAME] = f]
          /\ peer' = [peer EXCEPT !.at = "done", !.post = f]
    /\ UNCHANGED <<env, clock, stack, start, made, last>>

\* The call sites of the model: two methods of a backend class, as
\* memo_tools decorates them.
StatusGet == Site("_ModelBackend.status_get", "strict", <<"json", "json">>, TRUE)
ConfigGet == Site("_ModelBackend.config_get", "loose", <<"json", "json">>, TRUE)

\* The receiver of the calls.
Self == Py("object", "backend", <<>>)

\* The calls of the program.
Calls ==
    {CallOf(StatusGet, <<Self>>, <<>>),
     CallOf(StatusGet, <<Self, PyStr("extra")>>, <<>>),
     CallOf(ConfigGet, <<Self>>, <<>>)}

\* The calls the real function of a wrapper makes to wrapped functions.
NestedCalls ==
    {CallOf(StatusGet, <<Self>>, <<>>),
     CallOf(ConfigGet, <<Self>>, <<>>)}

\* What a real call returns.
Outputs == {PyStr("active"), PyStr("blocked")}

\* The environments a process is started with.
Envs == {Env(Unset, Unset, Unset), Env("replay", "0", Unset)}

\* The next-state relation for the environments E, the files F given to
\* setup, the calls C of the program, the calls N made by real functions and
\* the outputs O of real functions.
NextOver(E, F, C, N, O) ==
    \/ \E e \in E : NewProcess(e)
    \/ \E f \in F : Setup(f)
    \/ \E c \in (IF stack = <<>> THEN C ELSE N) : Call(c.site, c.args, c.kwargs)
    \/ \E o \in O : BackendReturn(o)
    \/ BackendFail

Next == NextOver(Envs, {DEFAULT_DB_NAME}, Calls, NestedCalls, Outputs)

Spec == Init /\ [][Next]_vars

\* A second universe: the wrappers are given a database name by
\* MEMO_DATABASE_NAME, and setup() is given that file.
DbEnvs ==
    {Env(Unset, Unset, OTHER_DB_NAME), Env("replay", "0", OTHER_DB_NAME)}

DbCalls == {CallOf(StatusGet, <<Self>>, <<>>)}

NextDb == NextOver(DbEnvs, {OTHER_DB_NAME}, DbCalls, DbCalls, Outputs)

SpecDb == Init /\ [][NextDb]_vars

\* A third universe: a site whose output is a stream (Client.pull, as
\* memo_tools decorates it), and real functions that return a stream or a
\* string, so that some outputs have no serialization.
Pull == Site("Client.pull", "strict", <<"json", "io">>, TRUE)

IOCalls ==
    {CallOf(Pull, <<Self, PyStr("/file")>>, <<>>),
     CallOf(StatusGet, <<Self>>, <<>>)}

IONestedCalls == {CallOf(StatusGet, <<Self>>, <<>>)}

IOOutputs == {PyIO("data"), PyBytesIO("data"), PyStr("active")}

NextIO == NextOver(Envs, {DEFAULT_DB_NAME}, IOCalls, IONestedCalls, IOOutputs)

SpecIO == Init /\ [][NextIO]_vars

\* A fourth universe: replay processes whose MEMO_REPLAY_IDX is not set, or
\* is not an integer.
IdxEnvs ==
    {Env(Unset, Unset, Unset), Env("replay", "0", Unset),
     Env("replay", Unset, Unset), Env("replay", "x", Unset)}

NextIdx == NextOver(IdxEnvs, {DEFAULT_DB_NAME}, Calls, {}, Outputs)

SpecIdx == Init /\ [][NextIdx]_vars

\* A fifth universe: the text of the store file is also written from outside.
ForeignKinds == {"absent", "empty", "garbage", "notobject", "badscenes"}

StoreCalls == {CallOf(StatusGet, <<Self>>, <<>>)}

\* Its environments: those of the first universe, and record mode without
\* JUJU_DISPATCH_PATH.
StoreEnvs == Envs \cup {WithDispatch(Env(Unset, Unset, Unset), Unset)}

NextStore ==
    \/ NextOver(StoreEnvs, {DEFAULT_DB_NAME}, StoreCalls, {}, {PyStr("active")})
    \/ \E k \in ForeignKinds : Tamper(DEFAULT_DB_NAME, k)

SpecStore == Init /\ [][NextStore]_vars

\* A sixth universe: the store is recorded by the sites as memo_tools
\* decorates them, and replayed by a program whose sites have the same names
\* and other arguments of @memo: the caching policy of status_get, the
\* caching policy and the serializer of config_get.
StatusGetNow == Site("_ModelBackend.status_get", "loose", <<"json", "json">>, TRUE)
ConfigGetNow == Site("_ModelBackend.config_get", "strict", <<"pickle", "pickle">>, TRUE)

RecordedCalls ==
    {CallOf(StatusGet, <<Self>>, <<>>),
     CallOf(StatusGet, <<Self, PyStr("extra")>>, <<>>),
     CallOf(ConfigGet, <<Self>>, <<>>)}

CurrentCalls ==
    {CallOf(StatusGetNow, <<Self>>, <<>>),
     CallOf(StatusGetNow, <<Self, PyStr("extra")>>, <<>>),
     CallOf(ConfigGetNow, <<Self>>, <<>>)}

NextMeta ==
    NextOver(Envs, {DEFAULT_DB_NAME},
             IF LoadMemoMode(env.mode) = "record" THEN RecordedCalls ELSE CurrentCalls,
             {}, Outputs)

SpecMeta == Init /\ [][NextMeta]_vars

\* A seventh universe: processes whose MEMO_MODE is neither record nor
\* replay.
ModeEnvs ==
    {Env("bogus", "0", Unset), Env("replay", "0", Unset)}

NextMode == NextOver(ModeEnvs, {DEFAULT_DB_NAME}, Calls, {}, Outputs)

SpecMode == Init /\ [][NextMode]_vars

\* An eighth universe: another process records on the same store file while
\* this one runs.  The real functions of this process return "active", those
\* of the other process "blocked".
PeerCalls == {CallOf(StatusGet, <<Self>>, <<>>)}

PeerOutputs == {PyStr("blocked")}

NextPeer ==
    \/ NextOver(Envs, {DEFAULT_DB_NAME}, StoreCalls, {}, {PyStr("active")})
    \/ \E c \in PeerCalls : PeerCall(c.site, c.args, c.kwargs)
    \/ \E o \in PeerOutputs : PeerReturn(o)
    \/ PeerWritePart
    \/ PeerWriteEnd

SpecPeer == Init /\ [][NextPeer]_vars

\* A ninth universe: the serializers alone.  The wrapper's _dump is applied to
\* a value and _load, with the same method, to what _dump returned.
CodecAtoms ==
    {PyNone, PyStr("a"), PyStr("/file"), PyIO("data"), PyBytesIO("data"), PyBytes("data")}

CodecPlain == {PyNone, PyStr("a"), PyStr("/file")}

\* The values: atoms, lists, tuples and dicts of plain atoms, and the
\* ((path, source), kwargs) of a call of Client.push.
CodecValues ==
    CodecAtoms
    \cup {PyList(<<a>>) : a \in CodecPlain}
    \cup {PyTuple(<<a>>) : a \in CodecPlain}
    \cup {PyList(<<a, b>>) : a \in CodecPlain, b \in CodecPlain}
    \cup {PyTuple(<<a, b>>) : a \in CodecPlain, b \in CodecPlain}
    \cup {PyDict(<<PyItem("k", a)>>) : a \in CodecPlain}
    \cup {PyTuple(<<PyTuple(<<PyStr("/file"), src>>), PyDict(<<>>)>>) :
             src \in {PyStr("a"), PyBytes("data"), PyIO("data"), PyBytesIO("data")}}

\* _load(_dump(x, method), method) in a process of the given mode; an
\* exception of _dump is the result.
RoundTrip(x, method, mode) ==
    /\ stack = <<>>
    /\ LET dumped == Dump(x, method, PyNone, mode)
           loaded == IF IsExc(dumped) THEN dumped ELSE Load(dumped, method)
       IN  last' = [Mark("codec", mode, method, loaded, files, files, start)
                       EXCEPT !.out = x]
    /\ UNCHANGED <<files, env, clock, stack, start, made, peer>>

NextCodec ==
    \E x \in CodecValues, method \in SUPPORTED_SERIALIZERS_LIST,
       mode \in {"record", "replay"} : RoundTrip(x, method, mode)

SpecCodec == Init /\ [][NextCodec]_vars

\* A tenth universe: the loose site is called with two inputs, so that a
\* loose Memo can lack the input of a call, and its real function calls the
\* strict site.
LooseCalls ==
    {CallOf(ConfigGet, <<Self>>, <<>>),
     CallOf(ConfigGet, <<Self, PyStr("extra")>>, <<>>),
     CallOf(StatusGet, <<Self>>, <<>>)}

LooseNestedCalls == {CallOf(StatusGet, <<Self>>, <<>>)}

NextLoose == NextOver(Envs, {DEFAULT_DB_NAME}, LooseCalls, LooseNestedCalls, Outputs)

SpecLoose == Init /\ [][NextLoose]_vars

\* An eleventh universe: the method is called on several receivers; the
\* recording processes call it on two backends, the replaying ones on a
\* third.
OtherSelf == Py("object", "other backend", <<>>)
ThirdSelf == Py("object", "third backend", <<>>)

RecvRecordCalls ==
    {CallOf(StatusGet, <<Self>>, <<>>),
     CallOf(StatusGet, <<OtherSelf>>, <<>>),
     CallOf(StatusGet, <<OtherSelf, PyStr("extra")>>, <<>>)}

RecvReplayCalls ==
    {CallOf(StatusGet, <<ThirdSelf>>, <<>>),
     CallOf(StatusGet, <<ThirdSelf, PyStr("extra")>>, <<>>)}

NextRecv ==
    NextOver(Envs, {DEFAULT_DB_NAME},
             IF LoadMemoMode(env.mode) = "record" THEN RecvRecordCalls ELSE RecvReplayCalls,
             {}, Outputs)

SpecRecv == Init /\ [][NextRecv]_vars

\* A twelfth universe: replay processes whose MEMO_REPLAY_IDX is 1 or 2, of
\* which the first addresses the second Scene and the second no Scene.
RangeEnvs ==
    {Env(Unset, Unset, Unset), Env("replay", "1", Unset), Env("replay", "2", Unset)}

NextRange == NextOver(RangeEnvs, {DEFAULT_DB_NAME}, Calls, {}, Outputs)

SpecRange == Init /\ [][NextRange]_vars

\* A thirteenth universe: calls with two keyword arguments, passed in one
\* order and in the other, to a strict site and to a loose site.
RelationGet == Site("_ModelBackend.relation_get", "strict", <<"json", "json">>, TRUE)
StatusSet == Site("_ModelBackend.status_set", "loose", <<"json", "json">>, TRUE)

KwCalls ==
    {CallOf(RelationGet, <<Self, PyStr("1")>>,
            <<PyItem("member_name", PyStr("app")), PyItem("is_app", PyStr("yes"))>>),
     CallOf(RelationGet, <<Self, PyStr("1")>>,
            <<PyItem("is_app", PyStr("yes")), PyItem("member_name", PyStr("app"))>>),
     CallOf(StatusSet, <<Self, PyStr("active")>>,
            <<PyItem("message", PyStr("ok")), PyItem("is_app", PyStr("yes"))>>),
     CallOf(StatusSet, <<Self, PyStr("active")>>,
            <<PyItem("is_app", PyStr("yes")), PyItem("message", PyStr("ok"))>>)}

NextKw == NextOver(Envs, {DEFAULT_DB_NAME}, KwCalls, {}, Outputs)

SpecKw == Init /\ [][NextKw]_vars

\* -------------------------------------------------------------- observation
\* The last thing that happened is an interception, in the given mode.
LastCall(mode) == last.kind = "call" /\ last.mode = mode

\* The scenes the database of the last interception holds in the files fs.
ScenesAt(fs) == fs[last.db].scenes

\* The scene MEMO_REPLAY_IDX selects among the scenes of fs, if any.
HasReplayScene(fs) ==
    /\ env.idx # Unset
    /\ IsInt(env.idx)
    /\ InRange(ScenesAt(fs), IntOf(env.idx))

ReplayScene(fs) == PyIndex(ScenesAt(fs), IntOf(env.idx))

\* The Memo of the site of the last interception in scene i of fs.
HasMemo(fs, i) ==
    /\ i \in 1..Len(ScenesAt(fs))
    /\ last.call.site.name \in DOMAIN ScenesAt(fs)[i].memos

MemoOf(fs, i) == ScenesAt(fs)[i].memos[last.call.site.name]

\* The serialized input of a call, as a replay computes it with the
\* serializers ser.
ReplayKey(call, ser) ==
    Dump(ArgsKwargs(call.site, call.args, call.kwargs), ser[1], PyNone, "replay")

\* The serialized input and output of the last interception, as a record
\* computes them with the serializers ser.
RecordKey(ser) ==
    Dump(ArgsKwargs(last.call.site, last.call.args, last.call.kwargs),
         ser[1], last.out, "record")

RecordValue(ser) == Dump(last.out, ser[2], PyNone, "record")

\* The Memos of some scenes; all the Memos there are, in the files and in
\* the Data of the wrappers that are in their real call.
MemosIn(scenes) ==
    UNION {{scenes[i].memos[n] : n \in DOMAIN scenes[i].memos} : i \in 1..Len(scenes)}

AllMemos ==
    UNION ({MemosIn(files[d].scenes) : d \in DbNames}
           \cup {MemosIn(stack[i].data) : i \in 1..Len(stack)})

\* ------------------------------------------------------------------- claims
\* C1: a strict Memo recorded (i_1,o_1)..(i_n,o_n), replayed with the cursors
\* at zero by calls to its site that repeat the recorded inputs in order:
\* the k-th such call returns the decoded o_k and makes no real call.
\* The calls to the site are counted in the order of their invocation since
\* the process start or setup() that left the cursors at zero.
C1_StrictReplayInOrder ==
    (/\ LastCall("replay")
     /\ last.db = DatabaseOf(env)
     /\ start.files[last.db].kind = "data"
     /\ env.idx # Unset /\ IsInt(env.idx)
     /\ InRange(start.files[last.db].scenes, IntOf(env.idx))
     /\ LET scene == start.files[last.db].scenes[PyIndex(start.files[last.db].scenes, IntOf(env.idx))]
            name == last.call.site.name
        IN  /\ name \in DOMAIN scene.memos
            /\ scene.memos[name].caching_policy = "strict"
            /\ \A n \in DOMAIN scene.memos :
                  scene.memos[n].caching_policy = "strict" => scene.memos[n].cursor = 0
            /\ LET m == scene.memos[name]
                   mine == {j \in 1..last.seq : made[j].site.name = name}
                   rank(j) == Cardinality({h \in mine : h <= j})
               IN  \A j \in mine :
                      /\ rank(j) <= Len(m.calls)
                      /\ ReplayKey(made[j], m.serializer.pair) = m.calls[rank(j)][1])
    => LET scene == start.files[last.db].scenes[PyIndex(start.files[last.db].scenes, IntOf(env.idx))]
           m == scene.memos[last.call.site.name]
           k == Cardinality({j \in 1..last.seq : made[j].site.name = last.call.site.name})
       IN  /\ last.real = 0
           /\ last.res = Load(m.calls[k][2], m.serializer.pair[2])

\* C2: a replay of a Scene that begins with setup() in replay mode, after a
\* replay of it that began with setup() in replay mode, begins with the Scene
\* as the first one began with it (the wrappers load the same recorded calls
\* and the same cursors), so that the same calls get the same outputs and hit
\* where they hit the first time.
C2_SecondReplayBeginsAsFirst ==
    (/\ last.kind = "setup" /\ last.mode = "replay" /\ ~IsExc(last.res)
     /\ last.begin.by = "setup"
     /\ env.idx # Unset /\ IsInt(env.idx)
     /\ InRange(DBLoad(last.begin.files[DatabaseOf(env)]).scenes, IntOf(env.idx)))
    => LET first == DBLoad(last.begin.files[DatabaseOf(env)]).scenes
           second == DBLoad(files[DatabaseOf(env)]).scenes
       IN  /\ InRange(second, IntOf(env.idx))
           /\ second[PyIndex(second, IntOf(env.idx))] = first[PyIndex(first, IntOf(env.idx))]

\* C3: the cursor of a strict Memo is never below zero and never above the
\* number of its recorded calls, in a store file and in the Data a wrapper
\* holds.
C3_StrictCursorInRange ==
    \A m \in AllMemos :
        m.caching_policy = "strict" => m.cursor >= 0 /\ m.cursor <= Len(m.calls)

\* A replay call found its strict Memo consumed to the end and left it so.
C3_Witness ==
    /\ LastCall("replay")
    /\ last.real = 1
    /\ HasReplayScene(files)
    /\ HasMemo(files, ReplayScene(files))
    /\ LET m == MemoOf(files, ReplayScene(files))
       IN  /\ m.caching_policy = "strict"
           /\ Len(m.calls) = 2
           /\ m.cursor = Len(m.calls)

\* C4: in record mode, a call that is not nested in an interception and has
\* none nested in it, and whose real function returns, appends the pair
\* (serialized input, serialized output) to the strict Memo of its site in
\* the last scene, after the pairs that were there, and the store file holds
\* it when the wrapper returns; the scene setup() appends has no Memo, so
\* that n such calls leave exactly their n pairs in call order.
C4_RecordingCompleteAndOrdered ==
    /\ (last.kind = "setup" /\ last.mode = "record" /\ ~IsExc(last.res))
       => /\ files = last.post
          /\ ScenesAt(files) # <<>>
          /\ ScenesAt(files)[Len(ScenesAt(files))].memos = EmptyContext
    /\ (/\ LastCall("record")
        /\ last.real = 1 /\ ~IsExc(last.res)
        /\ last.depth = 0 /\ last.inner = 0
        /\ LET i == Len(ScenesAt(last.pre))
           IN  HasMemo(last.pre, i) => MemoOf(last.pre, i).caching_policy = "strict"
        /\ last.call.site.caching_policy = "strict")
       => LET i == Len(ScenesAt(last.pre))
              before == IF HasMemo(last.pre, i) THEN MemoOf(last.pre, i).calls ELSE <<>>
              ser == CheckSerializer(last.call.site.serializer)
          IN  /\ files = last.post
              /\ Len(ScenesAt(files)) = i
              /\ HasMemo(files, i)
              /\ MemoOf(files, i).calls = Append(before, <<RecordKey(ser), RecordValue(ser)>>)

\* The second of two calls recorded in a strict Memo, with another output
\* than the first.
C4_Witness ==
    /\ LastCall("record")
    /\ last.real = 1 /\ ~IsExc(last.res)
    /\ last.depth = 0 /\ last.inner = 0
    /\ HasMemo(files, Len(ScenesAt(files)))
    /\ LET m == MemoOf(files, Len(ScenesAt(files)))
       IN  /\ m.caching_policy = "strict"
           /\ Len(m.calls) = 2
           /\ m.calls[1][2] # m.calls[2][2]
           /\ m.calls[2][2] = JsonDumps(last.out)

\* C5: a loose Memo holds at most one entry per serialized input, and in
\* record mode a call (with no interception nested in it) whose real function
\* returns leaves its output as the entry of its input: a new entry when the
\* input had none, the entry replaced, and no other touched, when it had one.
C5_LooseLastWriteWins ==
    /\ \A m \in AllMemos :
          m.caching_policy = "loose" =>
             \A i, j \in 1..Len(m.calls) : m.calls[i][1] = m.calls[j][1] => i = j
    /\ (/\ LastCall("record")
        /\ last.real = 1 /\ ~IsExc(last.res)
        /\ last.inner = 0
        /\ HasMemo(last.post, Len(ScenesAt(last.post)))
        /\ MemoOf(last.post, Len(ScenesAt(last.post))).caching_policy = "loose")
       => LET i == Len(ScenesAt(last.post))
              m == MemoOf(last.post, i)
              before == IF HasMemo(last.pre, i) THEN MemoOf(last.pre, i).calls ELSE <<>>
              key == RecordKey(m.serializer.pair)
              had == \E j \in 1..Len(before) : before[j][1] = key
          IN  /\ DictGet(m.calls, key) = RecordValue(m.serializer.pair)
              /\ Len(m.calls) = IF had THEN Len(before) ELSE Len(before) + 1
              /\ \A j \in 1..Len(before) :
                    before[j][1] # key => DictGet(m.calls, before[j][1]) = before[j][2]

\* A call recorded in a loose Memo over the entry of the same input, with
\* another output.
C5_Witness ==
    /\ LastCall("record")
    /\ last.real = 1 /\ ~IsExc(last.res)
    /\ last.inner = 0
    /\ HasMemo(last.pre, Len(ScenesAt(last.pre)))
    /\ HasMemo(files, Len(ScenesAt(files)))
    /\ LET before == MemoOf(last.pre, Len(ScenesAt(last.pre)))
           m == MemoOf(files, Len(ScenesAt(files)))
           key == RecordKey(m.serializer.pair)
       IN  /\ m.caching_policy = "loose"
           /\ DictGet(before.calls, key) # NotFound
           /\ DictGet(before.calls, key) # DictGet(m.calls, key)
           /\ Len(m.calls) = 1

\* C6: a replay call that finds its strict Memo with the cursor at the number
\* of recorded calls gets no error from the wrapper: the real function is
\* called once, what it returns (or raises) is what the caller gets, and the
\* Memo has the same calls and the same cursor afterwards.
C6_ExhaustionFallsBack ==
    (/\ LastCall("replay")
     /\ HasReplayScene(last.pre)
     /\ HasMemo(last.pre, ReplayScene(last.pre))
     /\ LET m == MemoOf(last.pre, ReplayScene(last.pre))
        IN  /\ m.caching_policy = "strict"
            /\ m.cursor = Len(m.calls)
            /\ ~IsExc(ReplayKey(last.call, m.serializer.pair)))
    => LET i == ReplayScene(last.pre)
           m == MemoOf(last.pre, i)
       IN  /\ last.real = 1
           /\ last.res = last.out
           /\ files = last.post
           /\ HasMemo(files, i)
           /\ MemoOf(files, i).calls = m.calls
           /\ MemoOf(files, i).cursor = m.cursor

\* A replay call past the end of a strict Memo with recorded calls, whose
\* real function returned.
C6_Witness ==
    /\ LastCall("replay")
    /\ HasReplayScene(last.pre)
    /\ HasMemo(last.pre, ReplayScene(last.pre))
    /\ LET m == MemoOf(last.pre, ReplayScene(last.pre))
       IN  /\ m.caching_policy = "strict"
           /\ m.calls # <<>>
           /\ m.cursor = Len(m.calls)
    /\ last.real = 1
    /\ ~IsExc(last.res)
    /\ last.res = last.out

C8_MissingMemoFallsBack ==
    (/\ LastCall("replay")
     /\ HasReplayScene(last.pre)
     /\ ~HasMemo(last.pre, ReplayScene(last.pre)))
    => /\ last.real = 1
       /\ last.res = last.out
       /\ files = last.post
       /\ Len(ScenesAt(files)) = Len(ScenesAt(last.pre))
       /\ \A i \in 1..Len(ScenesAt(files)) :
             MemoNames(ScenesAt(files)[i]) = MemoNames(ScenesAt(last.pre)[i])

\* A replay call to a site without a Memo, in a scene that has the Memo of
\* another site, whose real function returned.
C8_Witness ==
    /\ LastCall("replay")
    /\ HasReplayScene(last.pre)
    /\ ~HasMemo(last.pre, ReplayScene(last.pre))
    /\ MemoNames(ScenesAt(last.pre)[ReplayScene(last.pre)]) # {}
    /\ last.real = 1
    /\ ~IsExc(last.res)
    /\ last.res = last.out

\* C9: in record mode, when the real function raises, the caller gets that
\* exception and the wrapper writes nothing: the files are as they were
\* before the call, or as the last interception nested in it left them.
C9_FailureLeavesStore ==
    (LastCall("record") /\ last.real = 1 /\ IsExc(last.out))
    => /\ last.res = last.out
       /\ files = last.post
       /\ last.post = last.mid
       /\ last.inner = 0 => last.post = last.pre

\* In record mode the real function raised, in a scene that holds a recorded
\* call.
C9_Witness ==
    /\ LastCall("record")
    /\ last.real = 1
    /\ IsExc(last.out)
    /\ last.res = last.out
    /\ last.inner = 0
    /\ files = last.pre
    /\ \E m \in MemosIn(ScenesAt(files)) : m.calls # <<>>

C11_NoIndexIsFatal ==
    (LastCall("replay") /\ (env.idx = Unset \/ ~IsInt(env.idx)))
    => /\ IsExc(last.res)
       /\ last.real = 0
       /\ files = last.post
       /\ last.post = [last.pre EXCEPT ![last.db] = EventDbTouch(@)]

\* A replay call without a usable index, to a site whose Memo in the first
\* scene holds a recorded call with the input of the call.
C11_Witness ==
    /\ LastCall("replay")
    /\ env.idx \in {Unset, "x"}
    /\ IsExc(last.res)
    /\ files = last.pre
    /\ HasMemo(files, 1)
    /\ \E j \in 1..Len(MemoOf(files, 1).calls) :
          MemoOf(files, 1).calls[j][1] = ReplayKey(last.call, MemoOf(files, 1).serializer.pair)

\* The file the last operation loaded: an interception its database, setup()
\* in record mode its file, setup() in replay mode the default one.
LoadedByLast ==
    IF last.kind = "setup" /\ last.mode = "replay" THEN DEFAULT_DB_NAME ELSE last.db

C13_AbsentOrEmptyLoads ==
    /\ \A d \in DbNames :
          files[d].kind \in {"absent", "empty"} =>
             DBLoad(EventDbTouch(files[d])) = [err |-> PyNone, scenes |-> <<>>]
    /\ (/\ last.kind = "setup"
        /\ last.pre[LoadedByLast].kind \in {"absent", "empty"})
       => /\ last.res = IF last.mode = "record" /\ IsExc(EventName([env |-> env]))
                         THEN EventName([env |-> env]) ELSE PyNone
          /\ last.post[LoadedByLast].kind = "data"
          /\ Len(last.post[LoadedByLast].scenes) = IF last.mode = "record" THEN 1 ELSE 0
    /\ (/\ last.kind = "call"
        /\ last.pre[last.db].kind \in {"absent", "empty"})
       => /\ last.res = PyExc("RuntimeError")
          /\ last.real = 0
          /\ last.post = [last.pre EXCEPT ![last.db] = EventDbTouch(@)]

\* setup() in record mode found an empty store file and left one Scene in it.
C13_Witness ==
    /\ last.kind = "setup"
    /\ last.mode = "record"
    /\ last.pre[last.db].kind = "empty"
    /\ ~IsExc(last.res)
    /\ files = last.post
    /\ files[last.db].kind = "data"
    /\ Len(files[last.db].scenes) = 1

\* C14: setup() in record mode, when the store loads, leaves in the store
\* file the scenes that were there, in their order and as they were, and
\* after them one new Scene without Memos; the file holds them when setup()
\* returns, and also when it raises for the name of the Event.
C14_SetupAppendsOneScene ==
    (/\ last.kind = "setup" /\ last.mode = "record"
     /\ ~IsExc(DBLoad(EventDbTouch(last.pre[last.db])).err))
    => LET before == last.pre[last.db].scenes
           after == last.post[last.db].scenes
       IN  /\ last.post[last.db].kind = "data"
           /\ Len(after) = Len(before) + 1
           /\ SubSeq(after, 1, Len(before)) = before
           /\ after[Len(after)].memos = EmptyContext
           /\ \A d \in DbNames \ {last.db} : last.post[d] = last.pre[d]

\* setup() in record mode added a second Scene after one that holds a
\* recorded call.
C14_Witness ==
    /\ last.kind = "setup"
    /\ last.mode = "record"
    /\ ~IsExc(last.res)
    /\ files = last.post
    /\ Len(files[last.db].scenes) = 2
    /\ files[last.db].scenes[1] = last.pre[last.db].scenes[1]
    /\ \E m \in MemosIn(<<files[last.db].scenes[1]>>) : m.calls # <<>>
    /\ files[last.db].scenes[2].memos = EmptyContext

\* C15: setup() in replay mode, when the store loads, leaves in the default
\* store the Scenes it held, in their order and with their Events, every strict
\* Memo as it was but with cursor 0, and every loose Memo as it was, its "n/a"
\* cursor included; no other file changes.
C15_ResetOnlyStrictCursors ==
    (/\ last.kind = "setup" /\ last.mode = "replay"
     /\ last.pre[DEFAULT_DB_NAME].kind = "data")
    => LET before == last.pre[DEFAULT_DB_NAME].scenes
           after == last.post[DEFAULT_DB_NAME].scenes
       IN  /\ last.post[DEFAULT_DB_NAME].kind = "data"
           /\ Len(after) = Len(before)
           /\ \A i \in 1..Len(before) :
                /\ after[i].event = before[i].event
                /\ DOMAIN after[i].memos = DOMAIN before[i].memos
                /\ \A n \in DOMAIN before[i].memos :
                     after[i].memos[n] =
                        IF before[i].memos[n].caching_policy = "strict"
                        THEN [before[i].memos[n] EXCEPT !.cursor = 0]
                        ELSE before[i].memos[n]
           /\ \A d \in DbNames \ {DEFAULT_DB_NAME} : last.post[d] = last.pre[d]

\* C16: a replay call that finds a Memo whose stored caching policy or
\* serializers differ from those of its site is served by the stored ones.
\* The input is serialized with the stored input serializer; a strict Memo
\* whose pair at the cursor has that input gives the recorded output, decoded
\* with the stored output serializer, and its cursor advances by one; a loose
\* Memo with an entry for that input gives the entry, decoded likewise; in
\* both cases no real call is made.  Otherwise the real call is made once and
\* its result is the caller's.  The wrapper itself raises nothing.
C16_StoredMetadataRules ==
    (/\ LastCall("replay")
     /\ HasReplayScene(last.pre)
     /\ HasMemo(last.pre, ReplayScene(last.pre))
     /\ LET m == MemoOf(last.pre, ReplayScene(last.pre))
        IN  \/ m.caching_policy # last.call.site.caching_policy
            \/ m.serializer.pair # last.call.site.serializer)
    => LET i == ReplayScene(last.pre)
           m == MemoOf(last.pre, i)
           key == ReplayKey(last.call, m.serializer.pair)
           hit == IF m.caching_policy = "strict"
                  THEN /\ m.cursor \in 0..(Len(m.calls) - 1)
                       /\ m.calls[m.cursor + 1][1] = key
                  ELSE DictGet(m.calls, key) # NotFound
           stored == IF m.caching_policy = "strict"
                     THEN m.calls[m.cursor + 1][2]
                     ELSE DictGet(m.calls, key)
       IN  /\ ~IsExc(key)
           /\ hit => /\ last.real = 0
                     /\ last.res = Load(stored, m.serializer.pair[2])
                     /\ ~IsExc(last.res)
                     /\ MemoOf(last.post, i) =
                           IF m.caching_policy = "strict"
                           THEN [m EXCEPT !.cursor = @ + 1]
                           ELSE m
           /\ ~hit => /\ last.real = 1
                      /\ last.res = last.out

\* A replay call of a site that is now loose was served from the second pair
\* of the Memo stored as strict, without a real call.
C16_Witness ==
    /\ LastCall("replay")
    /\ HasReplayScene(last.pre)
    /\ HasMemo(last.pre, ReplayScene(last.pre))
    /\ last.call.site.caching_policy = "loose"
    /\ LET m == MemoOf(last.pre, ReplayScene(last.pre))
       IN  /\ m.caching_policy = "strict"
           /\ m.cursor = 1
           /\ Len(m.calls) = 2
           /\ last.res = Load(m.calls[2][2], m.serializer.pair[2])
    /\ last.real = 0
    /\ MemoOf(files, ReplayScene(last.pre)).cursor = 2

\* C17: in a process whose MEMO_MODE is neither record nor replay, setup()
\* and the wrappers go by record mode.  setup() raises nothing and leaves the
\* scenes of the store followed by one new Scene without Memos.  An
\* interception that finds a Scene makes the real call once and gives what
\* that returns or raises to the caller; what it returns is recorded in the
\* Memo of the site in the last Scene (appended to a strict Memo, set for its
\* input in a loose one).
C17_UnknownModeRecords ==
    (/\ env.mode \notin {Unset, "record", "replay"}
     /\ last.kind \in {"setup", "call"})
    => /\ last.mode = "record"
       /\ last.kind = "setup" =>
            LET before == last.pre[last.db].scenes
                after == last.post[last.db].scenes
            IN  /\ ~IsExc(last.res)
                /\ Len(after) = Len(before) + 1
                /\ SubSeq(after, 1, Len(before)) = before
                /\ after[Len(after)].memos = EmptyContext
       /\ (last.kind = "call" /\ last.pre[last.db].scenes # <<>>) =>
            LET before == last.pre[last.db].scenes
                after == last.post[last.db].scenes
                n == Len(before)
                name == last.call.site.name
                ser == CheckSerializer(last.call.site.serializer)
                had == IF name \in DOMAIN before[n].memos
                       THEN before[n].memos[name].calls ELSE <<>>
            IN  /\ last.real = 1
                /\ last.res = last.out
                /\ ~IsExc(last.out) =>
                     /\ Len(after) = n
                     /\ name \in DOMAIN after[n].memos
                     /\ IF last.call.site.caching_policy = "strict"
                        THEN after[n].memos[name].calls =
                                Append(had, <<RecordKey(ser), RecordValue(ser)>>)
                        ELSE DictGet(after[n].memos[name].calls, RecordKey(ser)) =
                                RecordValue(ser)

\* A process with MEMO_MODE=bogus ran setup() and then a call of a strict
\* site, whose real function returned; the store has the pair.
C17_Witness ==
    /\ env.mode = "bogus"
    /\ last.kind = "call"
    /\ last.begin.by = "setup"
    /\ last.call.site.caching_policy = "strict"
    /\ last.real = 1
    /\ ~IsExc(last.res)
    /\ files = last.post
    /\ LET sc == files[last.db].scenes
       IN  /\ sc # <<>>
           /\ last.call.site.name \in DOMAIN sc[Len(sc)].memos
           /\ sc[Len(sc)].memos[last.call.site.name].calls # <<>>

\* The store file fs holds, in a Memo of some Scene, the pair the last
\* interception recorded.
HoldsPairOfLast(fs) ==
    LET ser == CheckSerializer(last.call.site.serializer)
    IN  \E m \in MemosIn(DBLoad(fs[last.db]).scenes) :
           \E i \in 1..Len(m.calls) : m.calls[i] = <<RecordKey(ser), RecordValue(ser)>>

\* C18: the store has no lock.  A record interception that returns normally
\* leaves its pair in the store file; the commit of a wrapper of another
\* process writes the Data that wrapper loaded when it was called, with its
\* own pair added, whatever has been committed to the file since: the file
\* then holds nothing that was recorded after that load.  (The state in which
\* a returned interception has lost its pair in this way is C18_Witness.)
C18_CommitWritesWhatWasLoaded ==
    /\ (LastCall("record") /\ ~IsExc(last.res))
       => /\ last.real = 1
          /\ HoldsPairOfLast(last.post)
    /\ (peer.at = "done" /\ peer.post.kind = "data")
       => peer.post =
             DBCommit(Record(peer.call.site, peer.call.args, peer.call.kwargs,
                             peer.data, peer.out).scenes)

\* An interception of this process returned normally and left its pair in
\* the store; a wrapper of the other process, which had loaded the store
\* before, has committed since, and the store does not hold the pair.
C18_Witness ==
    /\ LastCall("record")
    /\ ~IsExc(last.res)
    /\ HoldsPairOfLast(last.post)
    /\ peer.at = "done"
    /\ files[last.db] = peer.post
    /\ files[last.db].kind = "data"
    /\ ~HoldsPairOfLast(files)

\* C19: the load of a setup() or of an interception, while or after a commit
\* of the other process, finds the store file complete: as event_db created
\* it or as a commit wrote it, never empty and never with a part of a text.
C19_LoadSeesCompleteFile ==
    last.kind \in {"call", "setup"}
    => last.pre[LoadedByLast].kind \in {"absent", "{}", "data"}

\* C20: a record interception that returns leaves the cursor of every Memo
\* of the store as it found it, and a Memo it creates has the cursor of a
\* new Memo (0, or "n/a" when loose).  A strict Memo in a Scene that no
\* replay selects, which has only been recorded into, has cursor 0.
C20_WriteKeepsCursors ==
    /\ (LastCall("record") /\ ~IsExc(last.res))
       => LET before == DBLoad(EventDbTouch(last.pre[last.db])).scenes
              after == DBLoad(last.post[last.db]).scenes
          IN  /\ Len(after) = Len(before)
              /\ \A i \in 1..Len(before) :
                   \A n \in DOMAIN after[i].memos :
                      after[i].memos[n].cursor =
                         IF n \in DOMAIN before[i].memos
                         THEN before[i].memos[n].cursor
                         ELSE IF after[i].memos[n].caching_policy = "strict"
                              THEN 0 ELSE NA
    /\ \A d \in DbNames :
         \A i \in 2..Len(files[d].scenes) :
            \A n \in DOMAIN DBLoad(files[d]).scenes[i].memos :
               LET m == DBLoad(files[d]).scenes[i].memos[n]
               IN  m.caching_policy = "strict" => m.cursor = 0

\* A record interception appended a second pair to a strict Memo of the
\* second Scene, and the cursor of the Memo is 0.
C20_Witness ==
    /\ LastCall("record")
    /\ ~IsExc(last.res)
    /\ files = last.post
    /\ Len(files[last.db].scenes) = 2
    /\ last.call.site.name \in DOMAIN DBLoad(files[last.db]).scenes[2].memos
    /\ LET m == DBLoad(files[last.db]).scenes[2].memos[last.call.site.name]
       IN  /\ m.caching_policy = "strict"
           /\ Len(m.calls) = 2
           /\ m.cursor = 0

\* C21: for each of the serializers json, pickle, io and PebblePush, _load
\* of what _dump made of a value, with the same serializer, is the value
\* (a stream of the same content for a stream).
C21_RoundTrip ==
    last.kind = "codec" => last.res = last.out

\* C22: a replay interception that finds its strict Memo with the cursor
\* below the number of recorded calls leaves the Memo in the store with the
\* cursor advanced by exactly one, whether the input matched the pair at the
\* cursor (a hit) or not (the real call is made).
C22_StrictLookupConsumesOne ==
    (/\ LastCall("replay")
     /\ HasReplayScene(last.pre)
     /\ HasMemo(last.pre, ReplayScene(last.pre))
     /\ LET m == MemoOf(last.pre, ReplayScene(last.pre))
        IN  /\ m.caching_policy = "strict"
            /\ m.cursor \in 0..(Len(m.calls) - 1))
    => LET i == ReplayScene(last.pre)
       IN  /\ HasMemo(last.post, i)
           /\ MemoOf(last.post, i).cursor = MemoOf(last.pre, i).cursor + 1

\* C23: the write of a record interception that returns (the store is
\* compared as it was when the interception wrote, which is as the last
\* interception nested in it left it, with the store after the interception)
\* leaves the Scenes of the store, all but the last as they were; the last
\* Scene has its Event, the Memos it had, each as it was but the one of the
\* site of the call, and a Memo of that site; a Memo the interception created
\* has the caching policy and the serializers of the site and holds the one
\* pair.
C23_RecordWritesCurrentScene ==
    (LastCall("record") /\ ~IsExc(last.res))
    => LET before == DBLoad(EventDbTouch(last.mid[last.db])).scenes
           after == DBLoad(last.post[last.db]).scenes
           n == Len(before)
           name == last.call.site.name
           ser == CheckSerializer(last.call.site.serializer)
       IN  /\ Len(after) = n
           /\ \A i \in 1..(n - 1) : after[i] = before[i]
           /\ after[n].event = before[n].event
           /\ DOMAIN after[n].memos = DOMAIN before[n].memos \cup {name}
           /\ \A o \in DOMAIN before[n].memos \ {name} :
                after[n].memos[o] = before[n].memos[o]
           /\ name \notin DOMAIN before[n].memos =>
                /\ after[n].memos[name].caching_policy = last.call.site.caching_policy
                /\ after[n].memos[name].serializer.pair = ser
                /\ after[n].memos[name].calls = <<<<RecordKey(ser), RecordValue(ser)>>>>

\* C24: the write of a replay interception (the store is compared as it was
\* when the interception wrote, which is as the last interception nested in
\* it left it, with the store after the interception) leaves the Scenes of
\* the store, with their Events, their Memos, and in every Memo the recorded
\* calls, the caching policy and the serializers as they were.  Every cursor
\* is as it was, but that of the Memo of the site of the call in the Scene
\* MEMO_REPLAY_IDX selects, when that Memo is strict: it is as it was or one
\* more.
C24_ReplayChangesOneCursor ==
    LastCall("replay")
    => LET before == DBLoad(EventDbTouch(last.mid[last.db])).scenes
           after == DBLoad(last.post[last.db]).scenes
       IN  /\ Len(after) = Len(before)
           /\ \A i \in 1..Len(before) :
                /\ after[i].event = before[i].event
                /\ DOMAIN after[i].memos = DOMAIN before[i].memos
                /\ \A n \in DOMAIN before[i].memos :
                     LET a == after[i].memos[n]
                         b == before[i].memos[n]
                     IN  /\ a.calls = b.calls
                         /\ a.caching_policy = b.caching_policy
                         /\ a.serializer = b.serializer
                         /\ \/ a.cursor = b.cursor
                            \/ /\ HasReplayScene(last.mid)
                               /\ i = ReplayScene(last.mid)
                               /\ n = last.call.site.name
                               /\ b.caching_policy = "strict"
                               /\ a.cursor = b.cursor + 1

\* C28: an interception in whose real call other interceptions were made,
\* and which returns, leaves in the store what they committed: every Memo
\* the store held when the last of them returned is in the store after the
\* outer interception, with every pair it held and with a cursor that is not
\* lower.
C28_NestedLoseNothing ==
    (/\ last.kind = "call"
     /\ last.inner > 0
     /\ ~IsExc(last.res))
    => LET inside == DBLoad(last.mid[last.db]).scenes
           after == DBLoad(last.post[last.db]).scenes
       IN  /\ Len(after) = Len(inside)
           /\ \A i \in 1..Len(inside) :
                \A n \in DOMAIN inside[i].memos :
                   /\ n \in DOMAIN after[i].memos
                   /\ \A k \in 1..Len(inside[i].memos[n].calls) :
                        \E j \in 1..Len(after[i].memos[n].calls) :
                           after[i].memos[n].calls[j] = inside[i].memos[n].calls[k]
                   /\ after[i].memos[n].cursor >= inside[i].memos[n].cursor

\* The Events of the Scenes of a store file, in their order.
EventsOf(f) == [i \in 1..Len(f.scenes) |-> f.scenes[i].event]

\* C25: every step of the process (setup() in either mode, the entry and the
\* return of an interception in either mode, a real call that raises) leaves
\* in every store file the Events of its Scenes, in their order, as the
\* beginning of the Events it holds afterwards: no Scene is removed or
\* moved, no Event changes.
C25_AppendOnly ==
    [][\A d \in DbNames :
          /\ Len(EventsOf(files[d])) <= Len(EventsOf(files'[d]))
          /\ SubSeq(EventsOf(files'[d]), 1, Len(EventsOf(files[d]))) = EventsOf(files[d])]_vars

\* The store has two Scenes with different Events; the first was replayed
\* (the cursor of one of its Memos is 1) before setup() appended the second.
C25_Witness ==
    /\ last.kind = "setup"
    /\ last.mode = "record"
    /\ files = last.post
    /\ Len(EventsOf(files[last.db])) = 2
    /\ EventsOf(files[last.db])[1] # EventsOf(files[last.db])[2]
    /\ EventsOf(last.pre[last.db]) = <<EventsOf(files[last.db])[1]>>
    /\ \E m \in MemosIn(<<files[last.db].scenes[1]>>) : m.cursor = 1

\* C26: a replay interception that finds a loose Memo of its site returns,
\* when the Memo has an entry for the serialized input, the decoded output of
\* that entry without a real call, whatever was looked up before; otherwise
\* the real call is made.  In both cases its write leaves the entries of the
\* Memo and every cursor of the store as they were (the store is compared as
\* it was when the interception wrote, which is as the last interception
\* nested in it left it, with the store after the interception).
C26_LooseLookupRepeatable ==
    (/\ LastCall("replay")
     /\ HasReplayScene(last.pre)
     /\ HasMemo(last.pre, ReplayScene(last.pre))
     /\ MemoOf(last.pre, ReplayScene(last.pre)).caching_policy = "loose")
    => LET m == MemoOf(last.pre, ReplayScene(last.pre))
           key == ReplayKey(last.call, m.serializer.pair)
           before == DBLoad(last.mid[last.db]).scenes
           after == DBLoad(last.post[last.db]).scenes
       IN  /\ DictGet(m.calls, key) # NotFound =>
                /\ last.real = 0
                /\ last.res = Load(DictGet(m.calls, key), m.serializer.pair[2])
           /\ DictGet(m.calls, key) = NotFound =>
                /\ last.real = 1
                /\ last.res = last.out
           /\ MemoOf(last.post, ReplayScene(last.pre)).calls = m.calls
           /\ Len(after) = Len(before)
           /\ \A i \in 1..Len(before) :
                \A n \in DOMAIN before[i].memos :
                   /\ n \in DOMAIN after[i].memos
                   /\ after[i].memos[n].cursor = before[i].memos[n].cursor

\* The serialized input of the last call without its first positional
\* argument, written with the input serializer in1.
KeyWithoutReceiver(in1) ==
    Dump(PyTuple(<<PyList(Tail(last.call.args)), PyDict(last.call.kwargs)>>),
         in1, PyNone, "replay")

\* C27: for a method (the first parameter is self) the serialized input is
\* made of the positional arguments after the receiver and of the keyword
\* arguments, whatever the receiver.  A record interception whose real call
\* returns stores the pair with that input; a replay interception whose
\* strict Memo has that input at the cursor is a hit, on any receiver.
C27_ReceiverLeftOut ==
    (/\ last.kind = "call"
     /\ last.call.site.is_method
     /\ last.call.args # <<>>)
    => /\ (/\ last.mode = "record"
           /\ last.real = 1
           /\ ~IsExc(last.out))
          => LET ser == CheckSerializer(last.call.site.serializer)
                 sc == DBLoad(last.post[last.db]).scenes
                 calls == sc[Len(sc)].memos[last.call.site.name].calls
             IN  /\ last.res = last.out
                 /\ calls[Len(calls)] = <<KeyWithoutReceiver(ser[1]), RecordValue(ser)>>
       /\ (/\ last.mode = "replay"
           /\ HasReplayScene(last.pre)
           /\ HasMemo(last.pre, ReplayScene(last.pre))
           /\ LET m == MemoOf(last.pre, ReplayScene(last.pre))
              IN  /\ m.caching_policy = "strict"
                  /\ m.cursor \in 0..(Len(m.calls) - 1)
                  /\ m.calls[m.cursor + 1][1] = KeyWithoutReceiver(m.serializer.pair[1]))
          => LET m == MemoOf(last.pre, ReplayScene(last.pre))
             IN  /\ last.real = 0
                 /\ last.res = Load(m.calls[m.cursor + 1][2], m.serializer.pair[2])

\* A call on the third backend was served from the second pair of a Memo
\* whose two pairs, recorded by calls on other backends, have the same input.
C27_Witness ==
    /\ LastCall("replay")
    /\ last.call.args[1] = ThirdSelf
    /\ last.real = 0
    /\ ~IsExc(last.res)
    /\ HasReplayScene(last.pre)
    /\ HasMemo(last.pre, ReplayScene(last.pre))
    /\ LET m == MemoOf(last.pre, ReplayScene(last.pre))
       IN  /\ Len(m.calls) = 2
           /\ m.cursor = 1
           /\ m.calls[1][1] = m.calls[2][1]
           /\ last.res = Load(m.calls[2][2], m.serializer.pair[2])

\* C29: when setup() returns, the store the wrappers of the process use (the
\* one MEMO_DATABASE_NAME names, or the default one) is the store it acted
\* on: in record mode that store has one Scene more than before, the last,
\* without Memos; in replay mode every cursor of a strict Memo of that store
\* is 0.
C29_SetupAndWrappersSameStore ==
    (last.kind = "setup" /\ ~IsExc(last.res) /\ files = last.post)
    => LET used == DatabaseOf(env)
           before == DBLoad(EventDbTouch(last.pre[used])).scenes
           after == DBLoad(files[used]).scenes
       IN  /\ last.mode = "record" =>
                /\ Len(after) = Len(before) + 1
                /\ after[Len(after)].memos = EmptyContext
           /\ last.mode = "replay" =>
                \A m \in MemosIn(after) : m.caching_policy = "strict" => m.cursor = 0

\* C30: an interception, in record or in replay mode, whose store holds no
\* Scene (the file is missing, or holds "{}", nothing, or a Data without
\* Scenes) raises RuntimeError; no real call is made, and the files are as
\* they were, but that a missing store file now holds "{}".
C30_NoSceneNoInterception ==
    (/\ last.kind = "call"
     /\ \/ last.pre[last.db].kind \in {"absent", "{}", "empty"}
        \/ last.pre[last.db].kind = "data" /\ last.pre[last.db].scenes = <<>>)
    => /\ last.res = PyExc("RuntimeError")
       /\ last.real = 0
       /\ last.post =
             [last.pre EXCEPT ![last.db] =
                 IF @.kind = "absent" THEN File("{}", <<>>) ELSE @]

\* A replay interception on a store that a setup() in replay mode left as a
\* Data without Scenes raised RuntimeError, and the store is as it was.
C30_Witness ==
    /\ LastCall("replay")
    /\ last.pre[last.db].kind = "data"
    /\ last.pre[last.db].scenes = <<>>
    /\ last.res = PyExc("RuntimeError")
    /\ last.real = 0
    /\ files = last.pre

\* C31: a setup() in record mode that raises leaves the store file with the
\* Scenes it had: no Scene is added.
C31_FailedSetupAddsNothing ==
    (/\ last.kind = "setup"
     /\ last.mode = "record"
     /\ IsExc(last.res))
    => DBLoad(last.post[last.db]).scenes = DBLoad(EventDbTouch(last.pre[last.db])).scenes

\* C32: a replay interception whose store holds Scenes, and whose
\* MEMO_REPLAY_IDX is an integer not below their number, raises IndexError;
\* no real call is made and the files are as they were.
C32_IndexOutOfRangeRaises ==
    (/\ LastCall("replay")
     /\ env.idx # Unset /\ IsInt(env.idx)
     /\ last.pre[last.db].kind = "data"
     /\ last.pre[last.db].scenes # <<>>
     /\ IntOf(env.idx) >= Len(last.pre[last.db].scenes))
    => /\ last.res = PyExc("IndexError")
       /\ last.real = 0
       /\ last.post = last.pre

\* A replay interception with MEMO_REPLAY_IDX=1 on a store with one Scene,
\* which holds a recorded call of the site, raised IndexError.
C32_Witness ==
    /\ LastCall("replay")
    /\ env.idx = "1"
    /\ Len(last.pre[last.db].scenes) = 1
    /\ last.call.site.name \in DOMAIN DBLoad(last.pre[last.db]).scenes[1].memos
    /\ last.res = PyExc("IndexError")
    /\ last.real = 0
    /\ files = last.pre

\* The orders in which the items of a keyword mapping can be passed.
Orders(kwargs) ==
    {[i \in 1..Len(kwargs) |-> kwargs[p[i]]] :
        p \in {q \in [1..Len(kwargs) -> 1..Len(kwargs)] :
                  \A i, j \in 1..Len(kwargs) : q[i] = q[j] => i = j}}

\* The serialized inputs of the last call with its keywords in every order.
KeysInAnyOrder(ser) ==
    {ReplayKey(CallOf(last.call.site, last.call.args, kw), ser) :
        kw \in Orders(last.call.kwargs)}

\* C33: a replay interception whose Memo holds, at the cursor when strict and
\* anywhere when loose, a recorded call with the same positional arguments
\* and the same keywords and values, in whatever order the keywords were
\* passed then, is a hit: it returns without a real call.
C33_KeywordOrderIrrelevant ==
    (/\ LastCall("replay")
     /\ HasReplayScene(last.pre)
     /\ HasMemo(last.pre, ReplayScene(last.pre))
     /\ LET m == MemoOf(last.pre, ReplayScene(last.pre))
            keys == KeysInAnyOrder(m.serializer.pair)
        IN  \/ /\ m.caching_policy = "strict"
               /\ m.cursor \in 0..(Len(m.calls) - 1)
               /\ m.calls[m.cursor + 1][1] \in keys
            \/ /\ m.caching_policy = "loose"
               /\ \E k \in keys : DictGet(m.calls, k) # NotFound)
    => /\ last.real = 0
       /\ ~IsExc(last.res)

====
